---- MODULE Spec2Model ----
(***************************************************************************)
(* The "chat with your CSV" pipeline of src/chat_handler.py: one user turn *)
(* asks the model for code, extracts it from the response text, validates  *)
(* it on its syntax tree (is_code_safe) and executes it in a restricted    *)
(* namespace (execute_safe_code).                                          *)
(*                                                                         *)
(* A response text is a sequence of lines.  A line is a blank line, a line *)
(* of prose, a fence of backticks, an `if True:` header whose block is the *)
(* rest of the text, or one simple Python statement given by its syntax    *)
(* tree.  Identifiers are sequences of tokens in which every underscore is *)
(* a token of its own, so that startswith("__") is computed, not assumed.  *)
(*                                                                         *)
(* The tables of tables_dict and the copies made of them are objects with  *)
(* columns and rows; candidate code reads and changes the object bound to  *)
(* df.  Spec follows one turn over every response text, RunsSpec several   *)
(* turns over programs that change df and bind the output names, and       *)
(* PreviewSpec a session with clicks on the table-preview buttons          *)
(* (display_tables_preview of src/data_processor.py, toggle_state of       *)
(* src/utils.py) between the script runs.                                  *)
(***************************************************************************)
EXTENDS Integers, Sequences, FiniteSets, TLC

\* ---------------------------------------------------------------- bounds
\* longest attribute chain after a root name (os.a.b has length 2)
MaxChain == 2
\* most lines in one response text
MaxLines == 2
\* most user turns in one session
MaxTurns == 1
\* most user turns in a session of several runs
MaxRuns == 2
\* time units a run that never ends is followed for
MaxElapsed == 9

\* ----------------------------------------------------------- identifiers
Id(s) == <<s>>

Dunder(s) == <<"_", "_", s, "_", "_">>

\* str.startswith("__")
StartsWithDunder(id) == Len(id) >= 2 /\ id[1] = "_" /\ id[2] = "_"

\* the literal set of is_code_safe's builtin test
DangerousBuiltins ==
    {Id("open"), Id("exec"), Id("eval"), Id("compile"), Dunder("import"), Id("input")}

\* the literal set of is_code_safe's two module tests
BlockedModules ==
    {Id("os"), Id("sys"), Id("subprocess"), Id("shutil"), Id("socket"), Id("pathlib")}

\* ---------------------------------------------------------- syntax trees
\* Nodes are records with a kind; the expression-context nodes (Load,
\* Store) that ast.walk also yields match none of the validator's tests and
\* are left out.
Name(id) == [kind |-> "Name", id |-> id]

Constant(v) == [kind |-> "Constant", value |-> v]

Attribute(v, a) == [kind |-> "Attribute", value |-> v, attr |-> a]

Subscript(v, s) == [kind |-> "Subscript", value |-> v, slice |-> s]

Call(f, args) == [kind |-> "Call", func |-> f, args |-> args]

Alias(m) == [kind |-> "alias", name |-> m]

Import(m) == [kind |-> "Import", names |-> <<Alias(m)>>]

ImportFrom(m, n) == [kind |-> "ImportFrom", module |-> m, names |-> <<Alias(n)>>]

ExprStmt(e) == [kind |-> "Expr", value |-> e]

Assign(t, e) == [kind |-> "Assign", targets |-> <<Name(t)>>, value |-> e]

\* an assignment whose target is an expression, as in df['new'] = 1
AssignTo(target, e) == [kind |-> "Assign", targets |-> <<target>>, value |-> e]

\* del target
Delete(target) == [kind |-> "Delete", targets |-> <<target>>]

\* global name: the name is a string of the node, not a child node
Global(id) == [kind |-> "Global", names |-> <<id>>]

Pass == [kind |-> "Pass"]

While(t, body) == [kind |-> "While", test |-> t, body |-> body]

If(t, body) == [kind |-> "If", test |-> t, body |-> body]

Module(body) == [kind |-> "Module", body |-> body]

\* ast.iter_child_nodes: the child nodes in field order
Children(n) ==
    CASE n.kind = "Module" -> n.body
      [] n.kind = "Import" -> n.names
      [] n.kind = "ImportFrom" -> n.names
      [] n.kind = "Expr" -> <<n.value>>
      [] n.kind = "Assign" -> n.targets \o <<n.value>>
      [] n.kind = "Delete" -> n.targets
      [] n.kind = "While" -> <<n.test>> \o n.body
      [] n.kind = "If" -> <<n.test>> \o n.body
      [] n.kind = "Call" -> <<n.func>> \o n.args
      [] n.kind = "Attribute" -> <<n.value>>
      [] n.kind = "Subscript" -> <<n.value, n.slice>>
      [] OTHER -> <<>>

\* ast.walk: breadth first from a queue, children appended as a node is taken
RECURSIVE WalkFrom(_)
WalkFrom(todo) ==
    IF todo = <<>> THEN <<>>
    ELSE <<Head(todo)>> \o WalkFrom(Tail(todo) \o Children(Head(todo)))

Walk(tree) == WalkFrom(<<tree>>)

\* the loop `while isinstance(root, ast.Attribute): root = root.value`
RECURSIVE RootOf(_)
RootOf(n) == IF n.kind = "Attribute" THEN RootOf(n.value) ELSE n

\* -------------------------------------------------------- response text
BlankLine == [kind |-> "blank"]

ProseLine == [kind |-> "prose"]

\* a line made of `ticks` backticks followed by an optional language tag
FenceLine(ticks, tag) == [kind |-> "fence", ticks |-> ticks, tag |-> tag]

\* the line `if True:`; the lines after it are its indented block
IfHeader == [kind |-> "ifhead"]

StmtLine(n) == [kind |-> "stmt", node |-> n]

\* str.strip(): leading and trailing whitespace removed
RECURSIVE StripLeft(_)
StripLeft(text) ==
    IF text # <<>> /\ Head(text).kind = "blank" THEN StripLeft(Tail(text)) ELSE text

RECURSIVE StripRight(_)
StripRight(text) ==
    IF text # <<>> /\ text[Len(text)].kind = "blank"
    THEN StripRight(SubSeq(text, 1, Len(text) - 1))
    ELSE text

Strip(text) == StripRight(StripLeft(text))

\* re.search(r"``````", text): six consecutive backticks somewhere in the text
SearchSixBackticks(text) ==
    \E i \in 1..Len(text) : text[i].kind = "fence" /\ text[i].ticks >= 6

\* extract_python_code: both searches use the same pattern, which has no
\* group; on a match m.group(1) raises IndexError, otherwise the whole text
\* is returned
extract_python_code(response_text) ==
    IF SearchSixBackticks(response_text)
    THEN [raised |-> TRUE, value |-> <<>>]
    ELSE [raised |-> FALSE, value |-> response_text]

\* ast.parse of the text: fails on prose and fences, and on a header without
\* a block
RECURSIVE ParseBody(_)
ParseBody(ls) ==
    IF ls = <<>> THEN [ok |-> TRUE, body |-> <<>>]
    ELSE LET h == Head(ls)
             r == ParseBody(Tail(ls))
         IN  CASE h.kind = "blank" -> r
               [] h.kind = "stmt" ->
                    IF r.ok THEN [ok |-> TRUE, body |-> <<h.node>> \o r.body] ELSE r
               [] h.kind = "ifhead" ->
                    IF r.ok /\ r.body # <<>>
                    THEN [ok |-> TRUE, body |-> <<If(Constant("True"), r.body)>>]
                    ELSE [ok |-> FALSE, body |-> <<>>]
               [] OTHER -> [ok |-> FALSE, body |-> <<>>]

ast_parse(code) ==
    LET r == ParseBody(code)
    IN  [ok |-> r.ok, tree |-> Module(r.body)]

\* ------------------------------------------------------------- validator
Reason(rule, name) == [rule |-> rule, name |-> name]

\* a plain `import m` is tested, a `from m import x` is not
ImportReasons_PlainOnly(node) ==
    IF node.kind = "Import" THEN <<Reason("import", <<>>)>> ELSE <<>>

\* "Import statements are not allowed."
ImportReasons(node) ==
    IF node.kind \in {"Import", "ImportFrom"} THEN <<Reason("import", <<>>)>> ELSE <<>>

\* the builtin test with `open` missing from its set
BuiltinCallReasons_NoOpen(node) ==
    IF node.kind = "Call" /\ node.func.kind = "Name"
       /\ node.func.id \in DangerousBuiltins \ {Id("open")}
    THEN <<Reason("builtin", node.func.id)>>
    ELSE <<>>

\* "Use of builtin `f` is not allowed."
BuiltinCallReasons(node) ==
    IF node.kind = "Call" /\ node.func.kind = "Name" /\ node.func.id \in DangerousBuiltins
    THEN <<Reason("builtin", node.func.id)>>
    ELSE <<>>

\* "Calls to module `m` are not allowed."
ModuleCallReasons(node) ==
    IF /\ node.kind = "Call"
       /\ node.func.kind = "Attribute"
       /\ RootOf(node.func).kind = "Name"
       /\ RootOf(node.func).id \in BlockedModules
    THEN <<Reason("module_call", RootOf(node.func).id)>>
    ELSE <<>>

\* the dunder test as a comparison with the known names
DunderReasons_KnownNames(node) ==
    IF node.kind = "Name" /\ node.id \in DangerousBuiltins
    THEN <<Reason("dunder", <<>>)>>
    ELSE <<>>

\* "Access to dunder names is not allowed."
DunderReasons(node) ==
    IF node.kind = "Name" /\ StartsWithDunder(node.id)
    THEN <<Reason("dunder", <<>>)>>
    ELSE <<>>

\* the attribute test applied to the attribute's own name
ModuleAttrReasons_OnAttr(node) ==
    IF node.kind = "Attribute" /\ node.attr \in BlockedModules
    THEN <<Reason("module_attr", node.attr)>>
    ELSE <<>>

\* "Attribute access to `m` is not allowed."
ModuleAttrReasons(node) ==
    IF /\ node.kind = "Attribute"
       /\ node.value.kind = "Name"
       /\ node.value.id \in BlockedModules
    THEN <<Reason("module_attr", node.value.id)>>
    ELSE <<>>

\* the body of the for loop over ast.walk(tree), in the order of its tests
NodeReasons(node) ==
    ImportReasons(node) \o BuiltinCallReasons(node) \o ModuleCallReasons(node)
        \o DunderReasons(node) \o ModuleAttrReasons(node)

RECURSIVE CollectReasons(_)
CollectReasons(nodes) ==
    IF nodes = <<>> THEN <<>>
    ELSE NodeReasons(Head(nodes)) \o CollectReasons(Tail(nodes))

\* an except branch that records nothing
ParseFailure_Silent == <<>>

\* what the except branch of is_code_safe appends
ParseFailure == <<Reason("parse", <<>>)>>

\* a loop that breaks at the first violation
UnsafeReasons_FirstOnly(code_block) ==
    LET p == ast_parse(code_block)
        all == IF p.ok THEN CollectReasons(Walk(p.tree)) ELSE ParseFailure
    IN  IF all = <<>> THEN <<>> ELSE <<all[1]>>

\* unsafe_reasons when is_code_safe reaches `if unsafe:`
UnsafeReasons(code_block) ==
    LET p == ast_parse(code_block)
    IN  IF p.ok THEN CollectReasons(Walk(p.tree)) ELSE ParseFailure

\* the nodes the loop of is_code_safe has visited when it ends
WalkedNodes(code_block) ==
    LET p == ast_parse(code_block)
    IN  IF p.ok THEN Len(Walk(p.tree)) ELSE 0

\* the return value of is_code_safe
is_code_safe(code_block) == UnsafeReasons(code_block) = <<>>

\* ------------------------------------------------------------ dataframes
\* A DataFrame object is named by a reference; its content is its columns
\* (column name to dtype) and its number of rows.  `frames` (below) maps the
\* references of the live objects to their contents.
Frame(columns, rows) == [columns |-> columns, rows |-> rows]

\* the table of the end-to-end scenarios: amount:number, date:string
FullTable == Frame([c \in {"amount", "date"} |-> IF c = "amount" THEN "float64" ELSE "str"], 2)

\* the same columns without a row
NoRowsTable == Frame(FullTable.columns, 0)

\* pd.DataFrame()
EmptyTable == Frame(<<>>, 0)

\* DataFrame.empty: some axis has length 0
IsEmptyFrame(f) == f.rows = 0 \/ DOMAIN f.columns = {}

\* the keys of tables_dict the model follows
TableNames == {"Uploaded Table", "Party"}

\* references of the objects that are DataFrames: the tables of tables_dict
\* under their keys, the copy create_chat_section makes and the copy bound to df
FrameRefs == TableNames \cup {"selected_df_chat", "exec_df"}

\* isinstance(v, pd.DataFrame)
IsFrame(v) == v \in FrameRefs

PutFrame(h, ref, f) == [r \in (DOMAIN h) \cup {ref} |-> IF r = ref THEN f ELSE h[r]]

\* a copy that is the source object itself
DataFrameCopy_Alias(h, src, dst) == [ref |-> src, frames |-> h]

\* a copy that keeps the object `dst` when there is one already
DataFrameCopy_Stale(h, src, dst) ==
    IF dst \in DOMAIN h THEN [ref |-> dst, frames |-> h]
    ELSE [ref |-> dst, frames |-> PutFrame(h, dst, h[src])]

\* DataFrame.copy(): a new object `dst` with the content of `src`
DataFrameCopy(h, src, dst) == [ref |-> dst, frames |-> PutFrame(h, dst, h[src])]

\* ------------------------------------------------- restricted execution
\* safe builtins extended with open
SafeBuiltins_WithOpen ==
    {Id("len"), Id("range"), Id("min"), Id("max"), Id("sum"), Id("abs"), Id("round"),
     Id("sorted"), Id("str"), Id("int"), Id("float"), Id("dict"), Id("list"), Id("open")}

\* the keys of safe_builtins
SafeBuiltins ==
    {Id("len"), Id("range"), Id("min"), Id("max"), Id("sum"), Id("abs"), Id("round"),
     Id("sorted"), Id("str"), Id("int"), Id("float"), Id("dict"), Id("list")}

\* exec_globals as execute_safe_code builds it; values are runtime types,
\* and df is the reference of a DataFrame
ExecGlobals(df) ==
    [k \in {Dunder("builtins"), Id("pd"), Id("np"), Id("px"), Id("plt"), Id("sns"), Id("df")} |->
        CASE k = Dunder("builtins") -> "safe_builtins"
          [] k = Id("pd") -> "module_pd"
          [] k = Id("np") -> "module_np"
          [] k = Id("px") -> "module_px"
          [] k = Id("plt") -> "module_plt"
          [] k = Id("sns") -> "module_sns"
          [] OTHER -> df]

\* exec_locals = {}
ExecLocals == <<>>

Bind(ns, id, v) == [k \in (DOMAIN ns) \cup {id} |-> IF k = id THEN v ELSE ns[k]]

Unbind(ns, id) == [k \in (DOMAIN ns) \ {id} |-> ns[k]]

\* the classes `except Exception` catches; SystemExit derives from
\* BaseException only
ExceptionClasses ==
    {"NameError", "AttributeError", "TypeError", "KeyError", "ImportError", "SyntaxError"}

\* what the running code sees: the two namespaces of exec, the dict behind
\* __builtins__, the names declared global, and the DataFrame objects
Env(g, l, b, d, h) == [globals |-> g, locals |-> l, builtins |-> b, declared |-> d, frames |-> h]

WithLocals(env, l) == [env EXCEPT !.locals = l]

WithGlobals(env, g) == [env EXCEPT !.globals = g]

WithFrames(env, h) == [env EXCEPT !.frames = h]

Value(v) == [exc |-> "", val |-> v]

Raise(e) == [exc |-> e, val |-> "NoneType"]

\* name lookup of code run by exec(code, globals, locals): locals, globals,
\* builtins; a name declared global skips the locals
Lookup(id, env) ==
    IF id \notin env.declared /\ id \in DOMAIN env.locals THEN Value(env.locals[id])
    ELSE IF id \in DOMAIN env.globals THEN Value(env.globals[id])
    ELSE IF id \in env.builtins THEN Value("builtin_function")
    ELSE Raise("NameError")

\* attribute access on the objects bound in the namespace: matplotlib.pyplot
\* imports sys and has figure, plotly.express has line, a Series has sum; a
\* table with columns amount and date has no attribute `system`; every
\* object has __class__
GetAttr(v, attr) ==
    CASE v = "module_plt" /\ attr = Id("sys") -> Value("module_sys")
      [] v = "module_sys" /\ attr = Id("exit") -> Value("function_exit")
      [] v = "module_plt" /\ attr = Id("figure") -> Value("function_figure")
      [] v = "module_px" /\ attr = Id("line") -> Value("function_line")
      [] v = "Series" /\ attr = Id("sum") -> Value("method_sum")
      [] attr = Dunder("class") -> Value("type")
      [] OTHER -> Raise("AttributeError")

\* v[key] with a constant key: a column of a DataFrame
GetItem(h, v, key) ==
    CASE IsFrame(v) /\ key \in DOMAIN h[v].columns -> Value("Series")
      [] IsFrame(v) -> Raise("KeyError")
      [] OTHER -> Raise("TypeError")

\* a call with the values of its arguments
Apply(v, args) ==
    CASE v = "function_exit" /\ args = <<>> -> Raise("SystemExit")
      [] v = "method_sum" /\ args = <<>> -> Value("float64")
      [] v = "function_figure" /\ args = <<>> -> Value("MplFigure")
      [] v = "function_line" /\ Len(args) = 1 /\ IsFrame(args[1]) -> Value("PlotlyFigure")
      [] OTHER -> Raise("TypeError")

ConstantType(c) ==
    CASE c = "None" -> "NoneType"
      [] c = "True" -> "bool"
      [] c = "1" -> "int"
      [] OTHER -> "str"

RECURSIVE Eval(_, _)
\* the arguments of a call, left to right; the first exception ends it
RECURSIVE EvalArgs(_, _)
EvalArgs(args, env) ==
    IF args = <<>> THEN [exc |-> "", vals |-> <<>>]
    ELSE LET v == Eval(Head(args), env)
             r == EvalArgs(Tail(args), env)
         IN  IF v.exc # "" THEN [exc |-> v.exc, vals |-> <<>>]
             ELSE IF r.exc # "" THEN r
             ELSE [exc |-> "", vals |-> <<v.val>> \o r.vals]

Eval(e, env) ==
    CASE e.kind = "Name" -> Lookup(e.id, env)
      [] e.kind = "Constant" -> Value(ConstantType(e.value))
      [] e.kind = "Attribute" ->
            LET v == Eval(e.value, env)
            IN  IF v.exc # "" THEN v ELSE GetAttr(v.val, e.attr)
      [] e.kind = "Subscript" ->
            LET v == Eval(e.value, env)
                k == Eval(e.slice, env)
            IN  IF v.exc # "" THEN v
                ELSE IF k.exc # "" THEN k
                ELSE GetItem(env.frames, v.val,
                             IF e.slice.kind = "Constant" THEN e.slice.value ELSE k.val)
      [] e.kind = "Call" ->
            LET f == Eval(e.func, env)
                a == EvalArgs(e.args, env)
            IN  IF f.exc # "" THEN f
                ELSE IF a.exc # "" THEN Raise(a.exc)
                ELSE Apply(f.val, a.vals)
      [] OTHER -> Raise("TypeError")

Outcome(status, exc, env) == [status |-> status, exc |-> exc, env |-> env]

\* target = value, for a name (a store to the locals, or to the globals when
\* the name is declared global) and for obj[key] (a column of a DataFrame is
\* set, in place)
Store(target, v, env) ==
    CASE target.kind = "Name" ->
            IF target.id \in env.declared
            THEN Outcome("ok", "", WithGlobals(env, Bind(env.globals, target.id, v)))
            ELSE Outcome("ok", "", WithLocals(env, Bind(env.locals, target.id, v)))
      [] target.kind = "Subscript" ->
            LET o == Eval(target.value, env)
            IN  IF o.exc # "" THEN Outcome("raise", o.exc, env)
                ELSE IF ~IsFrame(o.val) THEN Outcome("raise", "TypeError", env)
                ELSE LET f == env.frames[o.val]
                     IN  Outcome("ok", "",
                            WithFrames(env, PutFrame(env.frames, o.val,
                                Frame(Bind(f.columns, target.slice.value, v), f.rows))))
      [] OTHER -> Outcome("raise", "TypeError", env)

\* del target
Remove(target, env) ==
    CASE target.kind = "Name" ->
            IF target.id \in DOMAIN env.locals
            THEN Outcome("ok", "", WithLocals(env, Unbind(env.locals, target.id)))
            ELSE Outcome("raise", "NameError", env)
      [] target.kind = "Subscript" ->
            LET o == Eval(target.value, env)
            IN  IF o.exc # "" THEN Outcome("raise", o.exc, env)
                ELSE IF ~IsFrame(o.val) THEN Outcome("raise", "TypeError", env)
                ELSE LET f == env.frames[o.val]
                     IN  IF target.slice.value \notin DOMAIN f.columns
                         THEN Outcome("raise", "KeyError", env)
                         ELSE Outcome("ok", "",
                                WithFrames(env, PutFrame(env.frames, o.val,
                                    Frame(Unbind(f.columns, target.slice.value), f.rows))))
      [] OTHER -> Outcome("raise", "TypeError", env)

\* the statements run in order; an import needs __import__, which the
\* restricted builtins lack; `while True` never ends
RECURSIVE ExecBody(_, _)
ExecBody(body, env) ==
    IF body = <<>> THEN Outcome("ok", "", env)
    ELSE LET s == Head(body)
         IN  CASE s.kind \in {"Import", "ImportFrom"} -> Outcome("raise", "ImportError", env)
               [] s.kind = "Expr" ->
                    LET v == Eval(s.value, env)
                    IN  IF v.exc # "" THEN Outcome("raise", v.exc, env)
                        ELSE ExecBody(Tail(body), env)
               [] s.kind = "Assign" ->
                    LET v == Eval(s.value, env)
                        r == Store(s.targets[1], v.val, env)
                    IN  IF v.exc # "" THEN Outcome("raise", v.exc, env)
                        ELSE IF r.status # "ok" THEN r
                        ELSE ExecBody(Tail(body), r.env)
               [] s.kind = "Delete" ->
                    LET r == Remove(s.targets[1], env)
                    IN  IF r.status # "ok" THEN r ELSE ExecBody(Tail(body), r.env)
               [] s.kind = "If" ->
                    LET r == ExecBody(s.body, env)
                    IN  IF r.status # "ok" THEN r ELSE ExecBody(Tail(body), r.env)
               [] s.kind = "While" -> Outcome("diverge", "", env)
               [] OTHER -> ExecBody(Tail(body), env)

\* the names a statement list stores to or reads, in textual order, and the
\* names it declares global, as the compiler's symbol table sees them
RECURSIVE NamesIn(_)
NamesIn(nodes) ==
    IF nodes = <<>> THEN <<>>
    ELSE LET n == Head(nodes)
         IN  (CASE n.kind = "Name" -> <<[use |-> n.id]>>
                [] n.kind = "Global" -> <<[decl |-> n.names[1]]>>
                [] n.kind = "Assign" -> NamesIn(<<n.value>> \o n.targets)
                [] OTHER -> NamesIn(Children(n)))
             \o NamesIn(Tail(nodes))

GlobalNames(body) ==
    LET ns == NamesIn(body)
    IN  {ns[i].decl : i \in {j \in 1..Len(ns) : "decl" \in DOMAIN ns[j]}}

\* compile(code_block, "", "exec"): a syntax error of the text, or a name
\* used or assigned before its global declaration
Compiles(p) ==
    /\ p.ok
    /\ LET ns == NamesIn(p.tree.body)
       IN  \A i, j \in 1..Len(ns) :
              ("use" \in DOMAIN ns[i] /\ "decl" \in DOMAIN ns[j] /\ ns[i].use = ns[j].decl)
                  => j < i

\* exec(compile(code_block, "", "exec"), exec_globals, exec_locals) in the
\* environment execute_safe_code prepares: df is a copy of the selected table
RunCode(code_block, selected, h) ==
    LET p == ast_parse(code_block)
        c == DataFrameCopy(h, selected, "exec_df")
        env == Env(ExecGlobals(c.ref), ExecLocals, SafeBuiltins,
                   IF p.ok THEN GlobalNames(p.tree.body) ELSE {}, c.frames)
    IN  IF Compiles(p) THEN ExecBody(p.tree.body, env)
        ELSE Outcome("raise", "SyntaxError", env)

\* the output names in the reverse of the scanning order
OutputNames_Reversed == <<Id("output"), Id("fig"), Id("df_out"), Id("result")>>

\* the output names in the order execute_safe_code scans them
OutputNames == <<Id("result"), Id("df_out"), Id("fig"), Id("output")>>

\* the scan `for name in (...)`: locals first, then globals, first hit wins;
\* an empty name stands for output_name = None
RECURSIVE ScanOutputs(_, _, _)
ScanOutputs(names, g, l) ==
    IF names = <<>> THEN [name |-> <<>>, obj |-> "NoneType"]
    ELSE IF Head(names) \in DOMAIN l THEN [name |-> Head(names), obj |-> l[Head(names)]]
    ELSE IF Head(names) \in DOMAIN g THEN [name |-> Head(names), obj |-> g[Head(names)]]
    ELSE ScanOutputs(Tail(names), g, l)

\* a test that never sees a missing output
IsNoOutput_Never(out) == FALSE

\* `if output_obj is None`
IsNoOutput(out) == out.obj = "NoneType"

\* hasattr(v, "to_dict"): DataFrame, Series and plotly's Figure have it
HasToDict(v) == IsFrame(v) \/ v \in {"Series", "PlotlyFigure"}

\* a classifier that sends every value to the generic branch
ResultWidget_Generic(v) == "result"

\* display_execution_result: the widget the value is rendered with
ResultWidget(v) ==
    IF IsFrame(v) THEN "dataframe"
    ELSE IF HasToDict(v) /\ v \notin {"str", "bytes"} THEN "object"
    ELSE IF v = "PlotlyFigure" THEN "plotly_chart"
    ELSE IF v = "MplFigure" THEN "pyplot"
    ELSE "result"

\* ------------------------------------------------ candidate responses
Roots == {Id("df"), Id("os"), Id("open"), Dunder("import")}

RECURSIVE Chains(_)
Chains(k) ==
    IF k = 0 THEN {Name(r) : r \in Roots}
    ELSE Chains(k - 1) \cup {Attribute(c, Id("system")) : c \in Chains(k - 1)}

ChainExprs == Chains(MaxChain) \cup {Call(c, <<>>) : c \in Chains(MaxChain)}

\* result = df['amount'].sum()
SumStmt ==
    Assign(Id("result"),
           Call(Attribute(Subscript(Name(Id("df")), Constant("amount")), Id("sum")), <<>>))

\* x = 1
NoOutputStmt == Assign(Id("x"), Constant("1"))

\* result = undefined_var
NameErrorStmt == Assign(Id("result"), Name(Id("undefined_var")))

\* __builtins__ = None
DunderStoreStmt == Assign(Dunder("builtins"), Constant("None"))

\* while True: pass
LoopStmt == While(Constant("True"), <<Pass>>)

\* plt.sys.exit()
ExitStmt == ExprStmt(Call(Attribute(Attribute(Name(Id("plt")), Id("sys")), Id("exit")), <<>>))

Stmts ==
    {ExprStmt(e) : e \in ChainExprs}
        \cup {Import(Id("os")), Import(Id("pandas")),
              ImportFrom(Id("os"), Id("path")), ImportFrom(Id("pandas"), Id("DataFrame"))}
        \cup {SumStmt, NoOutputStmt, NameErrorStmt, DunderStoreStmt, LoopStmt, ExitStmt}

Lines ==
    {BlankLine, ProseLine, IfHeader, FenceLine(3, ""), FenceLine(3, "python"), FenceLine(6, "")}
        \cup {StmtLine(n) : n \in Stmts}

Texts == UNION {[1..n -> Lines] : n \in 0..MaxLines}

\* Programs: the responses of a session of several runs.  A program is one
\* statement, or a statement that prepares (a change of df, a binding) and
\* one that follows it.
DfName == Name(Id("df"))

\* df['new'] = 1
AddColumnStmt == AssignTo(Subscript(DfName, Constant("new")), Constant("1"))

\* df['amount'] = 1
OverwriteStmt == AssignTo(Subscript(DfName, Constant("amount")), Constant("1"))

\* del df['amount']
DropColumnStmt == Delete(Subscript(DfName, Constant("amount")))

\* df = None
RebindStmt == Assign(Id("df"), Constant("None"))

\* result = df['new']
ReadNewStmt == Assign(Id("result"), Subscript(DfName, Constant("new")))

\* df_out = df
TableOutStmt == Assign(Id("df_out"), DfName)

\* fig = px.line(df)
PlotlyStmt == Assign(Id("fig"), Call(Attribute(Name(Id("px")), Id("line")), <<DfName>>))

\* fig = plt.figure()
MplStmt == Assign(Id("fig"), Call(Attribute(Name(Id("plt")), Id("figure")), <<>>))

\* output = 1
OutputStmt == Assign(Id("output"), Constant("1"))

\* result = None
NoneResultStmt == Assign(Id("result"), Constant("None"))

\* global fig
GlobalStmt == Global(Id("fig"))

\* result = df.__class__
DunderAttrStmt == Assign(Id("result"), Attribute(DfName, Dunder("class")))

SetupStmts ==
    {AddColumnStmt, OverwriteStmt, DropColumnStmt, RebindStmt, OutputStmt, NoneResultStmt,
     NoOutputStmt, GlobalStmt}

FinalStmts ==
    SetupStmts \cup {SumStmt, ReadNewStmt, TableOutStmt, PlotlyStmt, MplStmt, NameErrorStmt,
                     LoopStmt, ExitStmt, Import(Id("os")), DunderAttrStmt}

\* responses that put the code in a fenced block, with prose around it or
\* without, and a response with a run of six backticks
FencedResponses ==
    {<<FenceLine(3, "python"), StmtLine(SumStmt), FenceLine(3, "")>>,
     <<FenceLine(3, ""), StmtLine(SumStmt), FenceLine(3, "")>>,
     <<ProseLine, FenceLine(3, "python"), StmtLine(SumStmt), FenceLine(3, ""), ProseLine>>,
     <<FenceLine(3, ""), StmtLine(NoOutputStmt), FenceLine(3, ""),
       FenceLine(3, "python"), StmtLine(SumStmt), FenceLine(3, "")>>,
     <<ProseLine, FenceLine(6, "")>>,
     <<BlankLine>>}

Programs ==
    {<<>>} \cup {<<StmtLine(b)>> : b \in FinalStmts}
           \cup {<<StmtLine(a), StmtLine(b)>> : a \in SetupStmts, b \in FinalStmts}
           \cup FencedResponses

\* the responses of a session in which the preview buttons are clicked
PreviewResponses ==
    {<<>>, <<StmtLine(SumStmt)>>, <<StmtLine(LoopStmt)>>, <<StmtLine(Import(Id("os")))>>}

\* the contents of tables_dict a session starts from: a usable table next to
\* an empty one, and tables_dict without a usable table
TableConfigs ==
    {[t \in TableNames |-> IF t = "Uploaded Table" THEN FullTable ELSE EmptyTable],
     [t \in TableNames |-> IF t = "Uploaded Table" THEN NoRowsTable ELSE EmptyTable],
     [t \in TableNames |-> EmptyTable]}

\* ------------------------------------------------------------ messages
Msg(role, content) == [role |-> role, content |-> content]

Greeting ==
    Msg("assistant", "Hello! I can help you analyze this data. What would you like to know?")

UserMsg == Msg("user", "prompt")

GeneratedMsg == Msg("assistant", "I generated code - attempting to run it safely.")

ProcessingErrorMsg == Msg("assistant", "An error occurred while processing your request.")

BlockedMsg ==
    Msg("assistant", "Generated code was blocked by safety checks and was not executed.")

NoOutputMsg == Msg("assistant", "Code executed but no output variable was found.")

ExecErrorMsg == Msg("assistant", "There was an error when executing the generated code.")

SuccessMsg(name) ==
    [role |-> "assistant", content |-> "Code executed successfully and produced", name |-> name]

\* ---------------------------------------------------------------- state
VARIABLES
    pc,              \* where the script is: idle, clicked (a button callback ran,
                     \* the script run is due), query, extract, validate, execute, running
    turns,           \* user prompts submitted so far
    chat_messages,   \* st.session_state.chat_messages; <<>> while the key is absent
    ui,              \* what the current script run has rendered, in order
    response_text,   \* response.text.strip() of the current turn
    code_block,      \* extract_python_code's result
    verdict,         \* is_code_safe of the current turn: none, safe, unsafe
    unsafe_reasons,  \* the reasons is_code_safe rendered
    walked,          \* nodes the validator's loop visited
    exec_calls,      \* calls of execute_safe_code in the current turn
    exec_globals,    \* namespace of the current execution
    exec_locals,
    result,          \* how the turn ended
    escaped,         \* exception class that left process_user_query uncaught
    elapsed,         \* time units the current exec has been running without returning
    frames,          \* the DataFrame objects: tables_dict's under their keys, and the copies
    chat_table_select,  \* the selectbox's value; "" before the first script run
    selected_df_chat,   \* reference of the table create_chat_section hands to the chat
    model_calls,     \* calls of gemini_model.generate_content in the current turn
    exec_builtins,   \* the keys of the dict bound to __builtins__ in the current execution
    output,          \* output_name and output_obj of the current execution
    expand,          \* the expand_... flags of st.session_state, by state key
    buttons          \* state keys of the preview buttons the last script run rendered

vars ==
    <<pc, turns, chat_messages, ui, response_text, code_block, verdict, unsafe_reasons,
      walked, exec_calls, exec_globals, exec_locals, result, escaped, elapsed,
      frames, chat_table_select, selected_df_chat, model_calls, exec_builtins, output,
      expand, buttons>>

turnVars ==
    <<response_text, code_block, verdict, unsafe_reasons, walked, exec_calls,
      exec_globals, exec_locals, escaped, elapsed, model_calls, exec_builtins, output>>

tableVars == <<frames, chat_table_select, selected_df_chat>>

previewVars == <<expand, buttons>>

\* output_obj = None, output_name = None
NoOutput == [name |-> <<>>, obj |-> "NoneType"]

Init ==
    /\ pc = "idle"
    /\ turns = 0
    /\ chat_messages = <<>>
    /\ ui = <<>>
    /\ response_text = <<>>
    /\ code_block = <<>>
    /\ verdict = "none"
    /\ unsafe_reasons = <<>>
    /\ walked = 0
    /\ exec_calls = 0
    /\ exec_globals = <<>>
    /\ exec_locals = <<>>
    /\ result = "none"
    /\ escaped = ""
    /\ elapsed = 0
    /\ frames \in TableConfigs
    /\ chat_table_select = ""
    /\ selected_df_chat = ""
    /\ model_calls = 0
    /\ exec_builtins = {}
    /\ output = NoOutput
    /\ expand = <<>>
    /\ buttons = {}

\* a history that is created anew on every script run
initialize_chat_history_Reset(msgs) == <<Greeting>>

\* initialize_chat_history
initialize_chat_history(msgs) == IF msgs = <<>> THEN <<Greeting>> ELSE msgs

\* a table name as the pieces str.replace looks at
NameTokens(t) ==
    CASE t = "Uploaded Table" -> <<"Uploaded", " ", "Table">>
      [] t = "Party" -> <<"Party">>

\* str.replace(' ', '')
RemoveSpaces(tokens) == SelectSeq(tokens, LAMBDA c : c # " ")

\* state_key = f"expand_{table_name.replace(' ', '')}"
StateKey(t) == <<"expand_">> \o RemoveSpaces(NameTokens(t))

\* display_tables_preview: every table of tables_dict gets its flag, False
\* when the key is absent, and then its button
display_tables_preview(session) ==
    LET keys == {StateKey(t) : t \in TableNames}
    IN  [session |-> [k \in DOMAIN session \cup keys |->
                         IF k \in DOMAIN session THEN session[k] ELSE FALSE],
         buttons |-> keys]

\* the preview part of a script run
PreviewTables ==
    LET p == display_tables_preview(expand)
    IN  /\ expand' = p.session
        /\ buttons' = p.buttons

\* a callback that negates every flag of the session
toggle_state_All(session, key) ==
    IF key \in DOMAIN session
    THEN [raised |-> "", session |-> [k \in DOMAIN session |-> ~session[k]]]
    ELSE [raised |-> "KeyError", session |-> session]

\* toggle_state: st.session_state[key] = not st.session_state[key]
toggle_state(session, key) ==
    IF key \in DOMAIN session
    THEN [raised |-> "", session |-> [session EXCEPT ![key] = ~session[key]]]
    ELSE [raised |-> "KeyError", session |-> session]

\* a click on a preview button: the on_click callback runs, the script
\* run that follows is RerunScript or NoUsableTable
ToggleExpand ==
    /\ pc = "idle"
    /\ \E key \in buttons :
           LET r == toggle_state(expand, key)
           IN  /\ expand' = r.session
               /\ ui' = IF r.raised = "" THEN ui ELSE <<"exception:" \o r.raised>>
    /\ pc' = "clicked"
    /\ UNCHANGED <<turns, chat_messages, result, buttons>>
    /\ UNCHANGED turnVars
    /\ UNCHANGED tableVars

\* every table of tables_dict, empty or not
AvailableTables_All(h) == TableNames

\* available_tables_chat: the keys of the tables that are not empty
AvailableTables(h) == {t \in TableNames : ~IsEmptyFrame(h[t])}

\* create_chat_section with no usable table: the warning and st.stop()
NoUsableTable ==
    /\ pc \in {"idle", "clicked"}
    /\ PreviewTables
    /\ AvailableTables(frames) = {}
    /\ ui' = <<"warning:no_usable_table">>
    /\ pc' = "idle"
    /\ UNCHANGED <<turns, chat_messages, result>>
    /\ UNCHANGED turnVars
    /\ UNCHANGED tableVars

\* create_chat_section from the selectbox to the copy of the selected table
SelectTable ==
    \E t \in AvailableTables(frames) :
        LET c == DataFrameCopy(frames, t, "selected_df_chat")
        IN  /\ chat_table_select' = t
            /\ selected_df_chat' = c.ref
            /\ frames' = c.frames

\* a script run without chat input: create_chat_section up to st.chat_input
RerunScript ==
    /\ pc \in {"idle", "clicked"}
    /\ PreviewTables
    /\ SelectTable
    /\ chat_messages' = initialize_chat_history(chat_messages)
    /\ ui' = <<>>
    /\ pc' = "idle"
    /\ UNCHANGED <<turns, result>>
    /\ UNCHANGED turnVars

\* display_chat_interface with a prompt: the user message is appended and
\* process_user_query starts
UserPromptUpTo(n) ==
    /\ pc = "idle"
    /\ turns < n
    /\ PreviewTables
    /\ SelectTable
    /\ turns' = turns + 1
    /\ chat_messages' = Append(initialize_chat_history(chat_messages), UserMsg)
    /\ ui' = <<>>
    /\ pc' = "query"
    /\ response_text' = <<>>
    /\ code_block' = <<>>
    /\ verdict' = "none"
    /\ unsafe_reasons' = <<>>
    /\ walked' = 0
    /\ exec_calls' = 0
    /\ exec_globals' = <<>>
    /\ exec_locals' = <<>>
    /\ result' = "none"
    /\ escaped' = ""
    /\ elapsed' = 0
    /\ model_calls' = 0
    /\ exec_builtins' = {}
    /\ output' = NoOutput

UserPrompt == UserPromptUpTo(MaxTurns)

RunsUserPrompt == UserPromptUpTo(MaxRuns)

\* the except branch of process_user_query
ProcessingError ==
    /\ ui' = Append(ui, "error:processing")
    /\ chat_messages' = Append(chat_messages, ProcessingErrorMsg)
    /\ result' = "ProcessingError"
    /\ pc' = "idle"

\* gemini_model.generate_content or response.text raises
ModelRaises ==
    /\ pc = "query"
    /\ model_calls' = model_calls + 1
    /\ ProcessingError
    /\ UNCHANGED <<turns, response_text, code_block, verdict, unsafe_reasons, walked,
                   exec_calls, exec_globals, exec_locals, escaped, elapsed, exec_builtins,
                   output>>
    /\ UNCHANGED tableVars
    /\ UNCHANGED previewVars

\* the model answers with some text
ModelRespondsFrom(texts) ==
    /\ pc = "query"
    /\ model_calls' = model_calls + 1
    /\ \E raw \in texts : response_text' = Strip(raw)
    /\ chat_messages' = Append(chat_messages, GeneratedMsg)
    /\ pc' = "extract"
    /\ UNCHANGED <<turns, ui, code_block, verdict, unsafe_reasons, walked, exec_calls,
                   exec_globals, exec_locals, result, escaped, elapsed, exec_builtins,
                   output>>
    /\ UNCHANGED tableVars
    /\ UNCHANGED previewVars

ModelResponds == ModelRespondsFrom(Texts)

RunsModelResponds == ModelRespondsFrom(Programs)

PreviewModelResponds == ModelRespondsFrom(PreviewResponses)

\* a test that takes every extraction for code
HasNoCode_Never(code) == FALSE

\* `if not code_block`: the extracted string is empty
HasNoCode(code) == code = <<>>

\* extract_and_execute_code up to the safety check
Extract ==
    /\ pc = "extract"
    /\ LET x == extract_python_code(response_text)
       IN  IF x.raised
           THEN /\ ProcessingError
                /\ UNCHANGED code_block
           ELSE IF HasNoCode(x.value)
           THEN /\ ui' = Append(ui, "error:no_code")
                /\ result' = "ExtractionFailure"
                /\ pc' = "idle"
                /\ UNCHANGED <<code_block, chat_messages>>
           ELSE /\ code_block' = x.value
                /\ ui' = Append(ui, "code_preview")
                /\ pc' = "validate"
                /\ UNCHANGED <<result, chat_messages>>
    /\ UNCHANGED <<turns, response_text, verdict, unsafe_reasons, walked, exec_calls,
                   exec_globals, exec_locals, escaped, elapsed, model_calls, exec_builtins,
                   output>>
    /\ UNCHANGED tableVars
    /\ UNCHANGED previewVars

\* a caller that goes on whatever the check returned
GateOpen_Always(safe) == TRUE

\* `if not is_code_safe(code_block): return` in extract_and_execute_code
GateOpen(safe) == safe

\* a pipeline that asks the model again after every failed attempt
AfterAttempt_Retry(status) ==
    IF status \in {"RuntimeError", "ValidationRejected"} THEN "query" ELSE "idle"

\* where process_user_query goes when an attempt has ended with `status`: it
\* returns, whatever the status
AfterAttempt(status) == "idle"

\* a validator that appends its message whatever it found
ValidatorReport_Always(safe, msgs) == Append(msgs, BlockedMsg)

\* the end of is_code_safe: the blocked message is appended when the code is
\* unsafe, and nothing is appended when it is safe
ValidatorReport(safe, msgs) == IF safe THEN msgs ELSE Append(msgs, BlockedMsg)

\* is_code_safe, and the caller's branch on its result
Validate ==
    /\ pc = "validate"
    /\ LET reasons == UnsafeReasons(code_block)
           safe == is_code_safe(code_block)
       IN  /\ walked' = WalkedNodes(code_block)
           /\ unsafe_reasons' = reasons
           /\ verdict' = IF safe THEN "safe" ELSE "unsafe"
           /\ ui' = IF safe THEN ui
                    ELSE ui \o <<"error:blocked", "reasons", "info:run_locally">>
           /\ chat_messages' = ValidatorReport(safe, chat_messages)
           /\ pc' = IF GateOpen(safe) THEN "execute" ELSE AfterAttempt("ValidationRejected")
           /\ result' = IF GateOpen(safe) THEN result ELSE "ValidationRejected"
    /\ UNCHANGED <<turns, response_text, code_block, exec_calls, exec_globals,
                   exec_locals, escaped, elapsed, model_calls, exec_builtins, output>>
    /\ UNCHANGED tableVars
    /\ UNCHANGED previewVars

\* execute_safe_code
Execute ==
    /\ pc = "execute"
    /\ exec_calls' = exec_calls + 1
    /\ LET r == RunCode(code_block, selected_df_chat, frames)
           out == IF r.status = "ok"
                  THEN ScanOutputs(OutputNames, r.env.globals, r.env.locals)
                  ELSE NoOutput
       IN  /\ exec_globals' = r.env.globals
           /\ exec_locals' = r.env.locals
           /\ exec_builtins' = r.env.builtins
           /\ frames' = r.env.frames
           /\ output' = out
           /\ CASE r.status = "diverge" ->
                    /\ ui' = Append(ui, "info:executing")
                    /\ pc' = "running"
                    /\ UNCHANGED <<chat_messages, result, escaped>>
                [] r.status = "raise" /\ r.exc \in ExceptionClasses ->
                    /\ ui' = ui \o <<"info:executing", "error:exec">>
                    /\ chat_messages' = Append(chat_messages, ExecErrorMsg)
                    /\ result' = "RuntimeError"
                    /\ pc' = AfterAttempt("RuntimeError")
                    /\ UNCHANGED escaped
                [] r.status = "raise" /\ r.exc \notin ExceptionClasses ->
                    /\ ui' = Append(ui, "info:executing")
                    /\ escaped' = r.exc
                    /\ result' = "Uncaught"
                    /\ pc' = "idle"
                    /\ UNCHANGED chat_messages
                [] r.status = "ok" /\ IsNoOutput(out) ->
                    /\ ui' = ui \o <<"info:executing", "warning:no_output", "namespace">>
                    /\ chat_messages' = Append(chat_messages, NoOutputMsg)
                    /\ result' = "NoOutputProduced"
                    /\ pc' = AfterAttempt("NoOutputProduced")
                    /\ UNCHANGED escaped
                [] OTHER ->
                    /\ ui' = ui \o <<"info:executing", ResultWidget(out.obj)>>
                    /\ chat_messages' = Append(chat_messages, SuccessMsg(out.name))
                    /\ result' = "Success"
                    /\ pc' = AfterAttempt("Success")
                    /\ UNCHANGED escaped
    /\ UNCHANGED <<turns, response_text, code_block, verdict, unsafe_reasons, walked,
                   elapsed, model_calls, chat_table_select, selected_df_chat>>
    /\ UNCHANGED previewVars

\* one more time unit inside exec: no timeout is armed, nothing interrupts
\* the loop and execute_safe_code does not return
Tick ==
    /\ pc = "running"
    /\ elapsed < MaxElapsed
    /\ elapsed' = elapsed + 1
    /\ UNCHANGED <<pc, turns, chat_messages, ui, response_text, code_block, verdict,
                   unsafe_reasons, walked, exec_calls, exec_globals, exec_locals,
                   result, escaped, model_calls, exec_builtins, output>>
    /\ UNCHANGED tableVars
    /\ UNCHANGED previewVars

Next ==
    \/ NoUsableTable
    \/ RerunScript
    \/ UserPrompt
    \/ ModelRaises
    \/ ModelResponds
    \/ Extract
    \/ Validate
    \/ Execute
    \/ Tick

\* a session of one turn over every response text
Spec == Init /\ [][Next]_vars

RunsNext ==
    \/ NoUsableTable
    \/ RerunScript
    \/ RunsUserPrompt
    \/ ModelRaises
    \/ RunsModelResponds
    \/ Extract
    \/ Validate
    \/ Execute
    \/ Tick

\* a session of several turns over the programs
RunsSpec == Init /\ [][RunsNext]_vars

PreviewNext ==
    \/ NoUsableTable
    \/ RerunScript
    \/ ToggleExpand
    \/ RunsUserPrompt
    \/ ModelRaises
    \/ PreviewModelResponds
    \/ Extract
    \/ Validate
    \/ Execute
    \/ Tick

\* a session with clicks on the preview buttons between the script runs
PreviewSpec == Init /\ [][PreviewNext]_vars

\* ---------------------------------------------- what a text contains
\* These read the text by its structure, without the validator's walk.
CodeStmts(text) == {text[i].node : i \in {j \in 1..Len(text) : text[j].kind = "stmt"}}

StmtExprs(st) ==
    CASE st.kind = "Expr" -> {st.value}
      [] st.kind = "Assign" -> {st.targets[1], st.value}
      [] st.kind = "While" -> {st.test}
      [] OTHER -> {}

RECURSIVE SubExprs(_)
SubExprs(e) ==
    {e} \cup
        CASE e.kind = "Attribute" -> SubExprs(e.value)
          [] e.kind = "Subscript" -> SubExprs(e.value) \cup SubExprs(e.slice)
          [] e.kind = "Call" ->
                SubExprs(e.func) \cup UNION {SubExprs(e.args[i]) : i \in DOMAIN e.args}
          [] OTHER -> {}

CodeExprs(text) == UNION {UNION {SubExprs(x) : x \in StmtExprs(st)} : st \in CodeStmts(text)}

RECURSIVE BaseOf(_)
BaseOf(e) == IF e.kind = "Attribute" THEN BaseOf(e.value) ELSE e

RECURSIVE ChainLength(_)
ChainLength(e) == IF e.kind = "Attribute" THEN 1 + ChainLength(e.value) ELSE 0

BlockedRootNames == {<<"os">>, <<"sys">>, <<"subprocess">>, <<"shutil">>, <<"socket">>, <<"pathlib">>}

DeniedCallNames ==
    {<<"open">>, <<"eval">>, <<"exec">>, <<"compile">>, <<"_", "_", "import", "_", "_">>, <<"input">>}

HasImport(text) == \E st \in CodeStmts(text) : st.kind \in {"Import", "ImportFrom"}

HasBlockedChain(text) ==
    \E st \in CodeStmts(text) : \E x \in StmtExprs(st) : \E e \in SubExprs(x) :
        e.kind = "Attribute" /\ BaseOf(e).kind = "Name" /\ BaseOf(e).id \in BlockedRootNames

HasBlockedCall(text) ==
    \E st \in CodeStmts(text) : \E x \in StmtExprs(st) : \E e \in SubExprs(x) :
        /\ e.kind = "Call"
        /\ e.func.kind = "Attribute"
        /\ BaseOf(e.func).kind = "Name"
        /\ BaseOf(e.func).id \in BlockedRootNames

HasDunderName(text) ==
    \E st \in CodeStmts(text) : \E x \in StmtExprs(st) : \E e \in SubExprs(x) :
        e.kind = "Name" /\ Len(e.id) >= 2 /\ e.id[1] = "_" /\ e.id[2] = "_"

HasDeniedCall(text) ==
    \E st \in CodeStmts(text) : \E x \in StmtExprs(st) : \E e \in SubExprs(x) :
        e.kind = "Call" /\ e.func.kind = "Name" /\ e.func.id \in DeniedCallNames

\* no syntax tree: prose, a fence, or an `if True:` with no statement after it
Unparseable(text) ==
    \E i \in 1..Len(text) :
        \/ text[i].kind \in {"prose", "fence"}
        \/ /\ text[i].kind = "ifhead"
           /\ ~\E j \in (i + 1)..Len(text) : text[j].kind = "stmt"

Validated == verdict # "none"

SandboxInvoked == exec_calls > 0 \/ pc \in {"execute", "running"} \/ exec_globals # <<>>

HasReason(rule) == \E i \in 1..Len(unsafe_reasons) : unsafe_reasons[i].rule = rule

\* --------------------------------------------------------------- claims
\* C1: code is executed only after is_code_safe has walked the whole tree
\* and returned True; code it returned False for is never executed.
C1_ExecuteOnlyAfterValidation ==
    /\ SandboxInvoked =>
          /\ verdict = "safe"
          /\ unsafe_reasons = <<>>
          /\ ~Unparseable(code_block)
          /\ walked = Len(Walk(ast_parse(code_block).tree))
    /\ verdict = "unsafe" => ~SandboxInvoked

C1_Witness == exec_calls = 1 /\ verdict = "safe" /\ walked > 3 /\ result = "Success"

\* C2: code with an import of any module, plain or from-style, at any
\* nesting depth, is rejected and the sandbox is not invoked.
C2_ImportsRejected ==
    (Validated /\ HasImport(code_block)) =>
        /\ verdict = "unsafe"
        /\ ~Unparseable(code_block) => HasReason("import")
        /\ ~SandboxInvoked

C2_Witness ==
    /\ verdict = "unsafe"
    /\ code_block = <<IfHeader, StmtLine(ImportFrom(Id("os"), Id("path")))>>
    /\ HasReason("import")
    /\ pc = "idle"

\* C3: code with a blocked root name followed by an attribute chain of any
\* length >= 1, called or not, is rejected.
C3_BlockedChainsRejected ==
    (Validated /\ HasBlockedChain(code_block)) => (verdict = "unsafe" /\ ~SandboxInvoked)

C3_Witness ==
    /\ verdict = "unsafe"
    /\ \E e \in CodeExprs(code_block) :
          /\ e.kind = "Attribute"
          /\ ChainLength(e) = MaxChain
          /\ BaseOf(e).kind = "Name"
          /\ BaseOf(e).id = <<"os">>
    /\ ~HasBlockedCall(code_block)
    /\ unsafe_reasons = <<Reason("module_attr", Id("os"))>>

\* C4: code in which a bare name begins with a double underscore is
\* rejected, whether the name is read, called or assigned.
C4_DunderNamesRejected ==
    (Validated /\ HasDunderName(code_block)) => (verdict = "unsafe" /\ ~SandboxInvoked)

C4_Witness ==
    /\ verdict = "unsafe"
    /\ code_block = <<StmtLine(DunderStoreStmt)>>
    /\ unsafe_reasons = <<Reason("dunder", <<>>)>>

\* C5: code with a call whose target is a bare name of the denylist is
\* rejected.
C5_DeniedCallsRejected ==
    (Validated /\ HasDeniedCall(code_block)) => (verdict = "unsafe" /\ ~SandboxInvoked)

C5_Witness ==
    /\ verdict = "unsafe"
    /\ code_block = <<StmtLine(ExprStmt(Call(Name(Id("open")), <<>>)))>>
    /\ unsafe_reasons = <<Reason("builtin", Id("open"))>>

\* C6: a rejection lists a reason for every rule the code violates, not only
\* the first, and the code is not executed.
C6_AllViolationsListed ==
    (Validated /\ ~Unparseable(code_block)) =>
        /\ HasImport(code_block) => HasReason("import")
        /\ HasDeniedCall(code_block) => HasReason("builtin")
        /\ HasBlockedCall(code_block) => HasReason("module_call")
        /\ HasDunderName(code_block) => HasReason("dunder")
        /\ HasBlockedChain(code_block) => HasReason("module_attr")
        /\ Len(unsafe_reasons) > 0 => (verdict = "unsafe" /\ ~SandboxInvoked)

C6_Witness ==
    /\ code_block = <<StmtLine(Import(Id("os"))),
                      StmtLine(ExprStmt(Call(Attribute(Name(Id("os")), Id("system")), <<>>)))>>
    /\ verdict = "unsafe"
    /\ unsafe_reasons = <<Reason("import", <<>>), Reason("module_call", Id("os")),
                          Reason("module_attr", Id("os"))>>
    /\ result = "ValidationRejected"

\* C7: code that cannot be parsed is rejected with the parse-failure reason
\* and is not executed; the failure does not leave the validator as an
\* exception.
C7_UnparseableRejected ==
    (Validated /\ Unparseable(code_block)) =>
        /\ verdict = "unsafe"
        /\ unsafe_reasons = <<[rule |-> "parse", name |-> <<>>]>>
        /\ result = "ValidationRejected"
        /\ escaped = ""
        /\ ~SandboxInvoked

C7_Witness ==
    /\ code_block = <<FenceLine(3, "python"), StmtLine(SumStmt)>>
    /\ verdict = "unsafe"
    /\ HasReason("parse")
    /\ chat_messages[Len(chat_messages)] = BlockedMsg

\* C8: validated code that runs longer than the timeout gets a Timeout
\* outcome within the budget: no execution is still running after 8 time
\* units, the largest budget the specification names.
C8_TimeoutWithinBudget == pc = "running" => elapsed <= 8

\* C9: an error raised while the code executes is caught in
\* execute_safe_code, which reports it and appends one error message; none
\* leaves execute_safe_code.
C9_RaisedErrorsCaught ==
    (exec_calls > 0 /\ pc = "idle"
        /\ RunCode(code_block, selected_df_chat, frames).status = "raise") =>
        /\ escaped = ""
        /\ result = "RuntimeError"
        /\ chat_messages[Len(chat_messages)] = ExecErrorMsg

\* C10: whatever the model does, process_user_query returns normally with a
\* structured status; nothing leaves it as an unhandled exception.
C10_QueryReturnsStructuredStatus ==
    (turns > 0 /\ pc = "idle") =>
        result \in {"ProcessingError", "ExtractionFailure", "ValidationRejected",
                    "RuntimeError", "NoOutputProduced", "Success"}

\* --------------------------------------------- what a finished run shows
\* a run of execute_safe_code has returned, or has escaped, in this script run
RunDone == exec_calls > 0 /\ pc = "idle" /\ ui # <<>>

\* the run's code ran to completion without raising
RanToCompletion == RunDone /\ result \in {"Success", "NoOutputProduced"}

\* the messages of the current turn end with the two given ones after the prompt
TurnEndsWith(m) ==
    /\ Len(chat_messages) >= 3
    /\ chat_messages[Len(chat_messages)] = m
    /\ chat_messages[Len(chat_messages) - 1] = GeneratedMsg
    /\ chat_messages[Len(chat_messages) - 2] = UserMsg

\* C11: each execution binds df to a private copy of the selected table:
\* whatever the candidate code does to df (add, drop or overwrite a column,
\* rebind the name), no step changes a table of tables_dict, df is an object
\* of its own, and the table handed to the chat, which the next run copies,
\* keeps the content of the selected table.
C11_DfIsPrivateCopy ==
    /\ [](selected_df_chat # "" =>
            /\ selected_df_chat \notin TableNames
            /\ frames[selected_df_chat] = frames[chat_table_select]
            /\ (exec_calls > 0 =>
                    exec_globals[Id("df")] \notin TableNames \cup {selected_df_chat}))
    /\ [][\A t \in TableNames : frames'[t] = frames[t]]_vars

\* in a second run, the code has added a column to df and dropped another
C11_Witness ==
    /\ turns = 2
    /\ RunDone
    /\ "new" \in DOMAIN frames["exec_df"].columns
    /\ "amount" \notin DOMAIN frames["exec_df"].columns
    /\ frames[chat_table_select] = FullTable

\* how execute_safe_code ends for an outcome of the code
KindOf(r) ==
    CASE r.status = "diverge" -> "none"
      [] r.status = "raise" /\ r.exc = "SystemExit" -> "Uncaught"
      [] r.status = "raise" -> "RuntimeError"
      [] IsNoOutput(ScanOutputs(OutputNames, r.env.globals, r.env.locals)) -> "NoOutputProduced"
      [] OTHER -> "Success"

\* the code of the current turn run on its own: nothing exists but the
\* selected table
RunAlone ==
    RunCode(code_block, "selected_df_chat",
            [r \in {"selected_df_chat"} |-> frames[chat_table_select]])

\* C12: the outcome of a run is that of the same code run on its own against
\* the same table: the same kind of outcome, the same namespaces and the
\* same content of df, whatever earlier runs bound or changed.
C12_RunsAreIndependent ==
    (exec_calls > 0 /\ pc \in {"idle", "running"}) =>
        /\ result = KindOf(RunAlone)
        /\ exec_globals = RunAlone.env.globals
        /\ exec_locals = RunAlone.env.locals
        /\ frames["exec_df"] = RunAlone.env.frames["exec_df"]

\* a second run reads the column an earlier run may have added, and fails
C12_Witness ==
    /\ turns = 2
    /\ RunDone
    /\ code_block = <<StmtLine(ReadNewStmt)>>
    /\ result = "RuntimeError"
    /\ chat_messages[4] = NoOutputMsg

\* the minimal builtin set, name by name
MinimalBuiltins ==
    {<<"len">>, <<"range">>, <<"min">>, <<"max">>, <<"sum">>, <<"abs">>, <<"round">>,
     <<"sorted">>, <<"str">>, <<"int">>, <<"float">>, <<"dict">>, <<"list">>}

\* builtins that reach the filesystem, the process, the network, reflection
\* or dynamic evaluation
ForbiddenBuiltins ==
    DeniedCallNames \cup
        {<<"getattr">>, <<"setattr">>, <<"delattr">>, <<"globals">>, <<"locals">>,
         <<"vars">>, <<"dir">>, <<"type">>, <<"breakpoint">>, <<"exit">>, <<"quit">>,
         <<"memoryview">>, <<"help">>}

\* the statement `open`, a name the validator lets through
BareOpen == <<StmtLine(ExprStmt(Name(<<"open">>)))>>

\* C13: in every execution the builtins the code can see are exactly len,
\* range, min, max, sum, abs, round, sorted, str, int, float, dict and list;
\* none of the forbidden builtins and none of the validator's denied call
\* names is among them, so that a bare use of `open` is a NameError.
C13_BuiltinsAreMinimal ==
    exec_calls > 0 =>
        /\ exec_builtins = MinimalBuiltins
        /\ exec_builtins \cap ForbiddenBuiltins = {}
        /\ exec_builtins \cap DangerousBuiltins = {}
        /\ (code_block = BareOpen /\ RunDone => result = "RuntimeError")

\* the code `open` was validated and executed, and failed on the name
C13_Witness ==
    /\ code_block = BareOpen
    /\ verdict = "safe"
    /\ RunDone
    /\ result = "RuntimeError"
    /\ exec_builtins # {}

\* the output names in their priority order
Priority == <<(<<"result">>), (<<"df_out">>), (<<"fig">>), (<<"output">>)>>

\* the output names bound after the run, in the locals or the globals
BoundOutputs == {i \in 1..4 : Priority[i] \in (DOMAIN exec_locals) \cup (DOMAIN exec_globals)}

FirstBound == CHOOSE i \in BoundOutputs : \A j \in BoundOutputs : i <= j

\* C14: after code ran to completion, the selected output is the first of
\* result, df_out, fig, output that is bound in the namespace after the run,
\* with the value it is bound to, in the locals or else the globals, whatever
\* other output names are bound; no output is selected when none is bound.
C14_FirstBoundOutputWins ==
    RanToCompletion =>
        IF BoundOutputs = {} THEN output = NoOutput
        ELSE /\ output.name = Priority[FirstBound]
             /\ output.obj = IF output.name \in DOMAIN exec_locals
                             THEN exec_locals[output.name]
                             ELSE exec_globals[output.name]

\* `output = 1` ran before `result = df['amount'].sum()`: result is selected
C14_Witness ==
    /\ RanToCompletion
    /\ code_block = <<StmtLine(OutputStmt), StmtLine(SumStmt)>>
    /\ BoundOutputs = {1, 4}
    /\ output = [name |-> <<"result">>, obj |-> "float64"]

\* C15: code that ran to completion and bound none of result, df_out, fig,
\* output ends as NoOutputProduced: the warning, the namespace listing and
\* the `no output variable was found` message, and neither an error nor a
\* success is reported.
C15_NoOutputIsItsOwnStatus ==
    (RunDone /\ KindOf(RunAlone) \notin {"RuntimeError", "Uncaught"} /\ BoundOutputs = {}) =>
        /\ result = "NoOutputProduced"
        /\ ui = <<"code_preview", "info:executing", "warning:no_output", "namespace">>
        /\ TurnEndsWith(NoOutputMsg)

\* `x = 1` ran and bound no output name
C15_Witness ==
    /\ RunDone
    /\ code_block = <<StmtLine(NoOutputStmt)>>
    /\ exec_locals = [k \in {<<"x">>} |-> "int"]
    /\ result = "NoOutputProduced"

\* the kind of a rendered result
KindOfWidget(w) ==
    CASE w = "dataframe" -> "Table"
      [] w \in {"plotly_chart", "pyplot"} -> "ChartFigure"
      [] w \in {"object", "result"} -> "ScalarOrObject"
      [] OTHER -> "none"

\* C16: a selected output is rendered once, as one of Table, ChartFigure and
\* ScalarOrObject: a DataFrame as Table, the scalar of
\* `result = df['amount'].sum()` as ScalarOrObject; then one success message
\* naming the selected output variable ends the turn's messages.
C16_OneKindOneMessage ==
    (RunDone /\ result = "Success") =>
        /\ Len(ui) = 3
        /\ KindOfWidget(ui[3]) \in {"Table", "ChartFigure", "ScalarOrObject"}
        /\ (output.obj \in TableNames \cup {"selected_df_chat", "exec_df"}
                <=> KindOfWidget(ui[3]) = "Table")
        /\ (output.obj = "float64" => KindOfWidget(ui[3]) = "ScalarOrObject")
        /\ output.name # <<>>
        /\ TurnEndsWith([role |-> "assistant",
                         content |-> "Code executed successfully and produced",
                         name |-> output.name])

\* result = df['amount'].sum() was rendered as a plain result
C16_Witness ==
    /\ RunDone
    /\ code_block = <<StmtLine(SumStmt)>>
    /\ result = "Success"
    /\ ui = <<"code_preview", "info:executing", "result">>
    /\ output = [name |-> <<"result">>, obj |-> "float64"]

\* C17: a selected output that is a chart figure, Plotly's or Matplotlib's,
\* is rendered as a chart (st.plotly_chart, st.pyplot), never through the
\* generic-object branch.
C17_FiguresRenderedAsCharts ==
    (RunDone /\ result = "Success" /\ output.obj \in {"PlotlyFigure", "MplFigure"}) =>
        KindOfWidget(ui[Len(ui)]) = "ChartFigure"

\* C18: a turn whose first attempt ended in RuntimeError or
\* ValidationRejected has asked the model a second time and has extracted,
\* validated and executed the repaired code once more; no turn ends with such
\* a status after a single model call.
C18_FailureIsRepairedOnce ==
    (turns > 0 /\ pc = "idle" /\ result \in {"RuntimeError", "ValidationRejected"}) =>
        model_calls = 2

\* C19: in one user turn the model is called at most twice and code is
\* executed at most twice; an execution starts only from the gate of the
\* attempt at hand, one at a time, and the model is never called while code
\* is about to run or running, so an attempt begins only after the one
\* before it has ended.
C19_AttemptsBoundedAndSequential ==
    /\ [](/\ model_calls <= 2
          /\ exec_calls <= 2
          /\ exec_calls <= model_calls
          /\ (pc \in {"extract", "validate", "execute"} => exec_calls < model_calls))
    /\ [][/\ (exec_calls' > exec_calls => pc = "execute" /\ exec_calls' = exec_calls + 1)
          /\ (model_calls' > model_calls =>
                 pc = "query" /\ model_calls' = model_calls + 1)
          /\ (pc = "running" => pc' = "running")]_vars

\* a turn whose only attempt failed at run time: one model call, one execution
C19_Witness ==
    /\ RunDone
    /\ result = "RuntimeError"
    /\ code_block = <<StmtLine(NameErrorStmt)>>
    /\ model_calls = 1
    /\ exec_calls = 1

\* no table of tables_dict has a row and a column
NoTableUsable == \A t \in TableNames : frames[t].rows = 0 \/ DOMAIN frames[t].columns = {}

\* C20: the chat never runs against an empty table: the selected table, the
\* table handed to the chat and df have rows and columns; with no such table
\* in tables_dict the section shows the warning and stops: no chat history,
\* no prompt, no model call, no validation and no execution.
C20_NoChatOnEmptyTables ==
    /\ (chat_table_select # "" =>
            /\ frames[chat_table_select].rows > 0
            /\ DOMAIN frames[chat_table_select].columns # {}
            /\ frames[selected_df_chat].rows > 0
            /\ DOMAIN frames[selected_df_chat].columns # {})
    /\ (NoTableUsable =>
            /\ chat_table_select = ""
            /\ chat_messages = <<>>
            /\ ui \in {<<>>, <<"warning:no_usable_table">>}
            /\ pc = "idle"
            /\ turns = 0
            /\ model_calls = 0
            /\ verdict = "none"
            /\ exec_calls = 0)

\* tables_dict holds only empty tables and the section has stopped
C20_Witness ==
    /\ NoTableUsable
    /\ ui = <<"warning:no_usable_table">>
    /\ chat_messages = <<>>

\* ------------------------------------------- what a response text holds
\* the model has answered in the turn at hand
Responded == turns > 0 /\ model_calls > 0 /\ pc \notin {"query", "extract"}
                 /\ chat_messages[Len(chat_messages)] # UserMsg
                 /\ (result = "ProcessingError" => Len(chat_messages) >= 2
                        /\ chat_messages[Len(chat_messages) - 1] = GeneratedMsg)

\* lines i..j are a fenced block: an opening fence of three backticks (tagged
\* python when `tagged`), and the next fence after it
IsBlock(text, i, j, tagged) ==
    /\ i < j
    /\ text[i].kind = "fence" /\ text[i].ticks = 3
    /\ tagged => text[i].tag = "python"
    /\ text[j].kind = "fence"
    /\ \A k \in (i + 1)..(j - 1) : text[k].kind # "fence"

Blocks(text, tagged) ==
    {b \in (1..Len(text)) \X (1..Len(text)) : IsBlock(text, b[1], b[2], tagged)}

FirstBlock(text, tagged) ==
    CHOOSE b \in Blocks(text, tagged) : \A c \in Blocks(text, tagged) : b[1] <= c[1]

\* the lines between the fences, without the blank lines around them
BodyOf(text, b) ==
    LET body == SubSeq(text, b[1] + 1, b[2] - 1)
        first == {i \in 1..Len(body) : body[i].kind # "blank"}
    IN  IF first = {} THEN <<>>
        ELSE SubSeq(body, CHOOSE i \in first : \A j \in first : i <= j,
                          CHOOSE i \in first : \A j \in first : i >= j)

\* the first python block, else the first block, else the whole text
CodeOf(text) ==
    IF Blocks(text, TRUE) # {} THEN BodyOf(text, FirstBlock(text, TRUE))
    ELSE IF Blocks(text, FALSE) # {} THEN BodyOf(text, FirstBlock(text, FALSE))
    ELSE text

\* C21: the extracted code is the body of the first fenced block tagged
\* python, else of the first fenced block, else the whole response text: for
\* prose, a python block and prose it is the code between the fences.
C21_FirstFencedBlockExtracted ==
    pc = "validate" => code_block = CodeOf(response_text)

\* C22: an extraction that fell back to the whole response text is flagged
\* to the caller as an unverified extraction: the value returned carries the
\* flag, or the flag is shown before the code goes on to validation.
C22_FallbackIsFlagged ==
    (pc = "validate" /\ code_block = response_text) =>
        \/ "unverified" \in DOMAIN extract_python_code(response_text)
        \/ \E i \in 1..Len(ui) : ui[i] = "warning:unverified_extraction"

\* C23: a response from which no code is extracted ends the turn with the
\* `no valid code` error: the validator and the sandbox are not invoked, the
\* model is not asked again and nothing is appended to the history.
C23_NoCodeStopsTheRun ==
    (Responded /\ response_text = <<>>) =>
        /\ pc = "idle"
        /\ result = "ExtractionFailure"
        /\ ui \in {<<>>, <<"error:no_code">>}
        /\ verdict = "none"
        /\ walked = 0
        /\ exec_calls = 0
        /\ exec_globals = <<>>
        /\ model_calls = 1
        /\ chat_messages[Len(chat_messages)] = GeneratedMsg

\* an empty response has been reported as holding no code
C23_Witness ==
    /\ Responded
    /\ response_text = <<>>
    /\ result = "ExtractionFailure"
    /\ ui = <<"error:no_code">>

\* the identifiers in attribute position of an expression
RECURSIVE AttrNames(_)
AttrNames(e) ==
    CASE e.kind = "Attribute" -> {e.attr} \cup AttrNames(e.value)
      [] e.kind = "Subscript" -> AttrNames(e.value) \cup AttrNames(e.slice)
      [] e.kind = "Call" -> AttrNames(e.func) \cup UNION {AttrNames(e.args[i]) : i \in DOMAIN e.args}
      [] OTHER -> {}

HasDunderAttr(text) ==
    \E st \in CodeStmts(text) : \E x \in StmtExprs(st) : \E a \in AttrNames(x) :
        Len(a) >= 2 /\ a[1] = "_" /\ a[2] = "_"

\* C24: code the validator accepts has no identifier beginning with a double
\* underscore, in attribute position either: df.__class__ is rejected.
C24_DunderAttributesRejected ==
    (Validated /\ HasDunderAttr(code_block)) => (verdict = "unsafe" /\ ~SandboxInvoked)

\* C25: when code ran to completion and bound one of result, df_out, fig,
\* output, the run is not reported as `no output`: the first bound name is
\* rendered and a success is reported, whatever its value, None included.
C25_BoundOutputIsReported ==
    (RanToCompletion /\ BoundOutputs # {}) =>
        /\ result = "Success"
        /\ output.name = Priority[FirstBound]
        /\ chat_messages[Len(chat_messages)] # NoOutputMsg

\* the history message that tells an outcome
OutcomeMsgs(status) ==
    CASE status = "ValidationRejected" ->
            {[role |-> "assistant",
              content |-> "Generated code was blocked by safety checks and was not executed."]}
      [] status = "NoOutputProduced" ->
            {[role |-> "assistant", content |-> "Code executed but no output variable was found."]}
      [] status = "RuntimeError" ->
            {[role |-> "assistant",
              content |-> "There was an error when executing the generated code."]}
      [] status = "ProcessingError" ->
            {[role |-> "assistant", content |-> "An error occurred while processing your request."]}
      [] status = "Success" ->
            {[role |-> "assistant", content |-> "Code executed successfully and produced",
              name |-> output.name]}
      [] OTHER -> {}

\* C26: a turn in which the model answered ends with exactly one outcome
\* message after the `I generated code` message, the one of the run's actual
\* outcome; `I generated code` is never the last entry of a finished turn.
C26_TurnEndsWithOutcomeMessage ==
    (Responded /\ pc = "idle") =>
        /\ chat_messages[Len(chat_messages)] # GeneratedMsg
        /\ chat_messages[Len(chat_messages)] \in OutcomeMsgs(result)
        /\ chat_messages[Len(chat_messages) - 1] = GeneratedMsg
        /\ chat_messages[Len(chat_messages) - 2] = UserMsg

IsPrefix(s, t) == Len(s) <= Len(t) /\ \A i \in 1..Len(s) : s[i] = t[i]

UserPositions == {i \in 1..Len(chat_messages) : chat_messages[i].role = "user"}

\* the assistant messages that follow the user message at position i
RepliesTo(i) ==
    {j \in (i + 1)..Len(chat_messages) :
        \A k \in (i + 1)..j : chat_messages[k].role = "assistant"}

\* C27: the chat history only grows: it starts with the greeting, a rerun
\* with a history leaves it as it is, no step removes or rewrites an entry,
\* and a user turn appends one user message and then one or two assistant
\* messages.
C27_HistoryIsAppendOnly ==
    /\ [](/\ chat_messages # <<>> =>
                chat_messages[1] =
                    [role |-> "assistant",
                     content |->
                        "Hello! I can help you analyze this data. What would you like to know?"]
          /\ Cardinality(UserPositions) = turns
          /\ \A i \in UserPositions :
                /\ Cardinality(RepliesTo(i)) <= 2
                /\ (i < Len(chat_messages) - 2 \/ pc = "idle") => Cardinality(RepliesTo(i)) >= 1)
    /\ [][/\ IsPrefix(chat_messages, chat_messages')
          /\ (chat_messages # <<>> /\ turns' = turns) =>
                \A i \in (Len(chat_messages) + 1)..Len(chat_messages') :
                    chat_messages'[i].role = "assistant"
          /\ turns' # turns =>
                /\ Len(chat_messages') = (IF chat_messages = <<>> THEN 1 ELSE Len(chat_messages)) + 1
                /\ chat_messages'[Len(chat_messages')].role = "user"]_vars

\* two turns have ended, the first with one assistant message and the
\* second with two, and the script has run again
C27_Witness ==
    /\ turns = 2
    /\ pc = "idle"
    /\ ui = <<>>
    /\ Len(chat_messages) = 6
    /\ chat_messages[3] = ProcessingErrorMsg
    /\ chat_messages[4] = UserMsg
    /\ chat_messages[6] = ExecErrorMsg

\* C28: extract_python_code returns a string for every response text, one
\* with six consecutive backticks included, and raises nothing: no turn in
\* which the model answered ends as a generic chat-processing error.
C28_ExtractionNeverRaises ==
    Responded =>
        /\ ~extract_python_code(response_text).raised
        /\ result # "ProcessingError"

\* C29: validation changes nothing but its rejection record: the history is
\* unchanged when the code is safe and gains exactly the `blocked by safety
\* checks` message when it is unsafe; the tables and their copies, the
\* namespace and the count of executions are as before, nothing has run.
C29_ValidationOnlyRecordsRejection ==
    [][pc = "validate" =>
          /\ verdict' \in {"safe", "unsafe"}
          /\ verdict' = "safe" => chat_messages' = chat_messages
          /\ verdict' = "unsafe" =>
                chat_messages' = chat_messages \o
                    <<[role |-> "assistant",
                       content |->
                          "Generated code was blocked by safety checks and was not executed."]>>
          /\ frames' = frames
          /\ exec_globals' = exec_globals
          /\ exec_locals' = exec_locals
          /\ exec_builtins' = exec_builtins
          /\ exec_calls' = exec_calls
          /\ output' = output]_vars

\* code that adds a column to df was found safe: no df exists yet and the
\* history ends with `I generated code`
C29_Witness ==
    /\ pc = "execute"
    /\ verdict = "safe"
    /\ code_block = <<StmtLine(AddColumnStmt)>>
    /\ DOMAIN frames = TableNames \cup {"selected_df_chat"}
    /\ exec_globals = <<>>
    /\ chat_messages[Len(chat_messages)] = GeneratedMsg

\* ------------------------------------------------------------------ C30
\* a table's flag and the flags of the other tables, by table
FlagOf(session, t) == session[StateKey(t)]

\* the session entries a toggle of key k has to leave alone
OtherKeysKept(k) ==
    /\ DOMAIN expand' = DOMAIN expand
    /\ \A j \in DOMAIN expand : j # k => expand'[j] = expand[j]
    /\ chat_messages' = chat_messages
    /\ chat_table_select' = chat_table_select
    /\ selected_df_chat' = selected_df_chat
    /\ frames' = frames

\* a script run adds the absent flags as False and keeps the others
FlagsInitialised ==
    /\ DOMAIN expand \subseteq DOMAIN expand'
    /\ \A k \in DOMAIN expand' :
           expand'[k] = IF k \in DOMAIN expand THEN expand[k] ELSE FALSE

\* C30: the expand flags are independent toggles.  Every button the script
\* rendered has its flag, a boolean, in the session (no click meets an
\* absent key), distinct tables have distinct keys, and toggling a key
\* twice gives the session back; a step that changes the flags is either a
\* script run that adds absent flags as False, or a click that negates one
\* flag and leaves every other flag, the chat history, the selection and
\* the tables as they were.
C30_ExpandFlagsAreIndependentToggles ==
    /\ [](/\ buttons \subseteq DOMAIN expand
          /\ \A k \in DOMAIN expand : expand[k] \in BOOLEAN
          /\ \A t, u \in TableNames : StateKey(t) = StateKey(u) => t = u
          /\ ~("exception:KeyError" \in {ui[i] : i \in DOMAIN ui})
          /\ \A k \in buttons :
                /\ toggle_state(expand, k).raised = ""
                /\ toggle_state(toggle_state(expand, k).session, k).session = expand)
    /\ [][expand' # expand =>
            \/ FlagsInitialised
            \/ \E k \in buttons :
                  /\ expand'[k] = ~expand[k]
                  /\ OtherKeysKept(k)]_vars

\* one table expanded by a click, the other still closed, after a turn of
\* the chat has written to the history
C30_Witness ==
    /\ pc = "clicked"
    /\ Len(chat_messages) >= 3
    /\ FlagOf(expand, "Uploaded Table")
    /\ ~FlagOf(expand, "Party")

====
